---- MODULE Spec2Model ----
(***************************************************************************)
(* generator.py: the generate run (main_generate) and the sync run         *)
(* (main_sync) of the site generator, as one sequential process.           *)
(*                                                                         *)
(* Text (file names, path strings, markdown, titles) is a sequence of      *)
(* one-character strings, so that the string operations of the source      *)
(* (startswith, endswith, replace, strip, split, splitext, format) are     *)
(* computed the way Python computes them.  A file-system path is the       *)
(* sequence of the components of its path string.                          *)
(***************************************************************************)
EXTENDS Integers, Sequences, FiniteSets, TLC

\* Python's None, as a text no string operation can produce
None == <<"None">>

-----------------------------------------------------------------------------
(* str methods *)

startswith(s, prefix) ==
    Len(s) >= Len(prefix) /\ SubSeq(s, 1, Len(prefix)) = prefix

endswith(s, suffix) ==
    Len(s) >= Len(suffix) /\ SubSeq(s, Len(s) - Len(suffix) + 1, Len(s)) = suffix

\* s.replace(old, new): every non-overlapping occurrence, left to right
RECURSIVE replace(_, _, _)
replace(s, old, new) ==
    IF s = <<>> THEN <<>>
    ELSE IF startswith(s, old)
         THEN new \o replace(SubSeq(s, Len(old) + 1, Len(s)), old, new)
         ELSE <<Head(s)>> \o replace(Tail(s), old, new)

Whitespace == {" ", "\t", "\n", "\r"}

RECURSIVE lstrip(_)
lstrip(s) == IF s # <<>> /\ Head(s) \in Whitespace THEN lstrip(Tail(s)) ELSE s

RECURSIVE rstrip(_)
rstrip(s) ==
    IF s # <<>> /\ s[Len(s)] \in Whitespace
    THEN rstrip(SubSeq(s, 1, Len(s) - 1)) ELSE s

strip(s) == rstrip(lstrip(s))

\* s.split(sep) for a one-character separator
RECURSIVE split(_, _)
split(s, sep) ==
    IF \A i \in 1..Len(s) : s[i] # sep THEN <<s>>
    ELSE LET i == CHOOSE k \in 1..Len(s) :
                      s[k] = sep /\ \A j \in 1..(k - 1) : s[j] # sep
         IN  <<SubSeq(s, 1, i - 1)>> \o split(SubSeq(s, i + 1, Len(s)), sep)

\* os.path.splitext of a file name (no directory part): the extension starts
\* at the last dot, unless only dots precede it
splitext(file) ==
    LET dots == {i \in 1..Len(file) : file[i] = "."}
    IN  IF dots = {} THEN <<file, <<>>>>
        ELSE LET i == CHOOSE k \in dots : \A j \in dots : j <= k
             IN  IF \A j \in 1..(i - 1) : file[j] = "."
                 THEN <<file, <<>>>>
                 ELSE <<SubSeq(file, 1, i - 1), SubSeq(file, i, Len(file))>>

\* the components of a path string: what the operating system resolves,
\* empty components ("//", a trailing "/") dropped
components(path) == SelectSeq(split(path, "/"), LAMBDA c : c # <<>>)

\* the path of the directory that holds path p
dirname(p) == SubSeq(p, 1, Len(p) - 1)

-----------------------------------------------------------------------------
(* get_first_heading, lines 29-33 *)

get_first_heading(markdown) ==
    LET lines == split(markdown, "\n")
        hits  == {i \in 1..Len(lines) : startswith(lines[i], <<"#", " ">>)}
    IN  IF hits = {} THEN None
        ELSE LET i == CHOOSE k \in hits : \A j \in hits : k <= j
             IN  strip(replace(lines[i], <<"#", " ">>, <<>>))

-----------------------------------------------------------------------------
(* The inputs of a run: the project directory, its config.yml, its         *)
(* templates, its content tree and the build tree a previous run left.     *)

\* bounds of the model
MaxFiles == 2    \* files in the content root directory
MaxRuns  == 2    \* consecutive generate runs on the same project

projectdir == <<"p">>

\* args.func / args.environment
Commands     == {"generate", "sync"}
Environments == {<<"p", "r", "o", "d">>, <<"t", "e", "s", "t">>}

\* config.yml: absent, not YAML, or a mapping
Configs == {"cfg_ok", "cfg_title", "cfg_novar", "cfg_missing", "cfg_bad"}

EmptyMap == [k \in {} |-> <<>>]

\* yaml.safe_load of config.yml, where it loads
config(cfg) ==
    CASE cfg = "cfg_ok" ->
           [var  |-> [name |-> <<"B", "e", "n">>],
            sync |-> (<<"p", "r", "o", "d">> :> [dest |-> <<"h", "o", "s", "t", ":", "/", "s", "r", "v", "/", "w", "w", "w">>])]
      [] cfg = "cfg_title" ->
           [var |-> [name |-> <<"B", "e", "n">>, title |-> <<"S", "i", "t", "e">>]]
      [] cfg = "cfg_novar" ->
           [sync |-> (<<"t", "e", "s", "t">> :> [dest |-> <<"/", "s", "r", "v", "/", "t", "e", "s", "t">>])]

\* <projectdir>/templates: the entries of the directory
TemplateDirs == {"full", "nodefault"}

template_entries(tpls) ==
    LET all == {<<"d", "e", "f", "a", "u", "l", "t", ".", "h", "t", "m", "l">>, <<"p", "a", "g", "e", ".", "h", "t", "m", "l">>, <<"b", "a", "d", ".", "h", "t", "m", "l">>,
                <<"b", "r", "o", "k", "e", "n", ".", "h", "t", "m", "l">>, <<"s", "u", "b">>}
    IN  IF tpls = "full" THEN all ELSE all \ {<<"d", "e", "f", "a", "u", "l", "t", ".", "h", "t", "m", "l">>}

\* what each entry is: a template that renders, one whose rendering raises,
\* one that does not compile, a directory
template_kind(name) ==
    CASE name = <<"b", "a", "d", ".", "h", "t", "m", "l">>    -> "raises"
      [] name = <<"b", "r", "o", "k", "e", "n", ".", "h", "t", "m", "l">> -> "syntax"
      [] name = <<"s", "u", "b">>         -> "dir"
      [] OTHER                   -> "good"

\* file contents, by name; the markdown ones are documents
Documents ==
    {"d_plain", "d_none", "d_hash", "d_title", "d_titleonly", "d_comment",
     "d_commentonly", "d_t_special", "d_t_page", "d_t_sub", "d_t_up",
     "d_t_bad", "d_t_broken", "d_undef", "d_syntax", "d_script"}

raw(d) ==
    CASE d = "d_plain"       -> <<"#", " ", "O", "n", "l", "y", " ", "H", "e", "a", "d", "i", "n", "g", "\n", "B", "o", "d", "y">>
      [] d = "d_none"        -> <<"B", "o", "d", "y">>
      [] d = "d_hash"        -> <<"#", " ", "C", "#", " ", "x", "\n", "B", "o", "d", "y">>
      [] d = "d_title"       -> <<"-", "-", "-", "\n", "t", "i", "t", "l", "e", ":", " ", "H", "e", "l", "l", "o", "\n", "-", "-", "-", "\n", "#", " ", "W", "o", "r", "l", "d", "\n", "T", "e", "x", "t">>
      [] d = "d_titleonly"   -> <<"-", "-", "-", "\n", "t", "i", "t", "l", "e", ":", " ", "H", "e", "l", "l", "o", "\n", "-", "-", "-", "\n", "T", "e", "x", "t">>
      [] d = "d_comment"     -> <<"-", "-", "-", "\n", "#", " ", "n", "o", "t", "e", "\n", "k", ":", " ", "v", "\n", "-", "-", "-", "\n", "#", " ", "W", "o", "r", "l", "d", "\n", "T", "e", "x", "t">>
      [] d = "d_commentonly" -> <<"-", "-", "-", "\n", "#", " ", "n", "o", "t", "e", "\n", "k", ":", " ", "v", "\n", "-", "-", "-", "\n", "T", "e", "x", "t">>
      [] d = "d_t_special"   -> <<"-", "-", "-", "\n", "t", "e", "m", "p", "l", "a", "t", "e", ":", " ", "s", "p", "e", "c", "i", "a", "l", ".", "h", "t", "m", "l", "\n", "-", "-", "-", "\n", "#", " ", "W", "o", "r", "l", "d">>
      [] d = "d_t_page"      -> <<"-", "-", "-", "\n", "t", "e", "m", "p", "l", "a", "t", "e", ":", " ", "p", "a", "g", "e", ".", "h", "t", "m", "l", "\n", "-", "-", "-", "\n", "#", " ", "W", "o", "r", "l", "d">>
      [] d = "d_t_sub"       -> <<"-", "-", "-", "\n", "t", "e", "m", "p", "l", "a", "t", "e", ":", " ", "s", "u", "b", "\n", "-", "-", "-", "\n", "#", " ", "W", "o", "r", "l", "d">>
      [] d = "d_t_up"        -> <<"-", "-", "-", "\n", "t", "e", "m", "p", "l", "a", "t", "e", ":", " ", ".", ".", "/", "c", "o", "n", "f", "i", "g", ".", "y", "m", "l", "\n", "-", "-", "-", "\n", "#", " ", "W", "o", "r", "l", "d">>
      [] d = "d_t_bad"       -> <<"-", "-", "-", "\n", "t", "e", "m", "p", "l", "a", "t", "e", ":", " ", "b", "a", "d", ".", "h", "t", "m", "l", "\n", "-", "-", "-", "\n", "#", " ", "W", "o", "r", "l", "d">>
      [] d = "d_t_broken"    -> <<"-", "-", "-", "\n", "t", "e", "m", "p", "l", "a", "t", "e", ":", " ", "b", "r", "o", "k", "e", "n", ".", "h", "t", "m", "l", "\n", "-", "-", "-", "\n", "#", " ", "W", "o", "r", "l", "d">>
      [] d = "d_undef"       -> <<"#", " ", "W", "o", "r", "l", "d", "\n", "{", "{", " ", "v", "a", "r", ".", "x", ".", "y", " ", "}", "}">>
      [] d = "d_syntax"      -> <<"#", " ", "W", "o", "r", "l", "d", "\n", "{", "{", " ", "v", "a", "r", ".">>
      [] d = "d_script"      -> <<"e", "c", "h", "o", " ", "h", "i">>
      [] OTHER               -> <<d>>

\* document.front_matter.get_data(), or {} (lines 51-54)
front_matter(d) ==
    CASE d \in {"d_title", "d_titleonly"}     -> [title |-> <<"H", "e", "l", "l", "o">>]
      [] d \in {"d_comment", "d_commentonly"} -> [k |-> <<"v">>]
      [] d = "d_t_special" -> [template |-> <<"s", "p", "e", "c", "i", "a", "l", ".", "h", "t", "m", "l">>]
      [] d = "d_t_page"    -> [template |-> <<"p", "a", "g", "e", ".", "h", "t", "m", "l">>]
      [] d = "d_t_sub"     -> [template |-> <<"s", "u", "b">>]
      [] d = "d_t_up"      -> [template |-> <<".", ".", "/", "c", "o", "n", "f", "i", "g", ".", "y", "m", "l">>]
      [] d = "d_t_bad"     -> [template |-> <<"b", "a", "d", ".", "h", "t", "m", "l">>]
      [] d = "d_t_broken"  -> [template |-> <<"b", "r", "o", "k", "e", "n", ".", "h", "t", "m", "l">>]
      [] OTHER             -> EmptyMap

\* what jinja2 does with the rendered markdown as a template source: it
\* compiles and renders, it does not compile, or its rendering raises
content_kind(d) ==
    CASE d = "d_syntax" -> "syntax"
      [] d = "d_undef"  -> "raises"
      [] OTHER          -> "good"

\* the result of parse_markdown_with_front_matter (lines 43-59)
parse_markdown_with_front_matter(d) ==
    [front_matter |-> front_matter(d), content |-> d, raw |-> raw(d)]

\* a directory entry that is a file
File(name, data) == [name |-> name, data |-> data]

Entries ==
       {File(<<"a", ".", "m", "d">>, d) : d \in Documents \ {"d_script"}}
  \cup {File(<<"b", ".", "m", "d">>, d) :
            d \in {"d_none", "d_title", "d_plain", "d_commentonly", "d_undef",
                   "d_t_bad"}}
  \cup {File(<<"x", ".", "c", "m", "d">>, "d_script"), File(<<"r", "e", "a", "d", "m", "d">>, "d_script"),
        File(<<"a", ".", "h", "t", "m", "l">>, "bin_html"), File(<<"i", ".", "p", "n", "g">>, "bin_png")}

\* the listings of a directory, in the order os.walk reports the files:
\* sequences of at most n entries with different names
RECURSIVE Listings(_)
Listings(n) ==
    IF n = 0 THEN {<<>>}
    ELSE LET shorter == Listings(n - 1)
         IN  shorter \cup
             {Append(l, e) : l \in {x \in shorter : Len(x) = n - 1},
                             e \in Entries} 

DistinctNames(l) ==
    \A i, j \in 1..Len(l) : i # j => l[i].name # l[j].name

RootListings == {l \in Listings(MaxFiles) : DistinctNames(l)}

SmallListings ==
    {<<File(<<"a", ".", "m", "d">>, "d_plain"), File(<<"i", ".", "p", "n", "g">>, "bin_png")>>,
     <<File(<<"a", ".", "m", "d">>, "d_t_page"), File(<<"b", ".", "m", "d">>, "d_none")>>,
     <<File(<<"a", ".", "m", "d">>, "d_t_special"), File(<<"b", ".", "m", "d">>, "d_title")>>,
     <<File(<<"i", ".", "p", "n", "g">>, "bin_png"), File(<<"a", ".", "m", "d">>, "d_undef"),
       File(<<"b", ".", "m", "d">>, "d_title")>>,
     <<File(<<"b", ".", "m", "d">>, "d_title"), File(<<"a", ".", "m", "d">>, "d_t_bad"),
       File(<<"i", ".", "p", "n", "g">>, "bin_png")>>}

\* the directories under the content root, each with its sub-directories in
\* the order os.walk reports them; paths are relative to the content root
Shapes == {"flat", "nested", "echo", "clash"}

subdirs(shape, dir) ==
    CASE shape = "nested" /\ dir = <<>>        -> <<<<"s">>>>
      [] shape = "nested" /\ dir = <<<<"s">>>>  -> <<<<"t">>>>
      [] shape = "echo"   /\ dir = <<>>        -> <<<<"a", "p">>>>
      [] shape = "clash"  /\ dir = <<>>        -> <<<<"a", "p">>, <<"a", "b">>>>
      [] shape \in {"echo", "clash"} /\ dir = <<<<"a", "p">>>> -> <<<<"c", "o", "n", "t", "e", "n", "t">>>>
      [] shape \in {"echo", "clash"} /\ dir = <<<<"a", "p">>, <<"c", "o", "n", "t", "e", "n", "t">>>>
                                               -> <<<<"b">>>>
      [] OTHER                                 -> <<>>

\* the files of a directory: the root's are the run's input, a
\* sub-directory holds one document or one image
files_of(listing, dir) ==
    IF dir = <<>> THEN listing
    ELSE IF dir[Len(dir)] = <<"s">> THEN <<File(<<"c", ".", "m", "d">>, "d_none")>>
    ELSE <<File(<<"i", ".", "p", "n", "g">>, "bin_png")>>

\* what a previous run left at <projectdir>/build
PrevBuilds == {"absent", "stale"}

BuildRoot == <<projectdir, <<"b", "u", "i", "l", "d">>>>

prev_dirs(prev) ==
    IF prev = "absent" THEN {}
    ELSE {BuildRoot, BuildRoot \o <<<<"o", "l", "d">>>>}

prev_files(prev) ==
    IF prev = "absent" THEN EmptyMap
    ELSE (BuildRoot \o <<<<"a", ".", "h", "t", "m", "l">>>> :> [kind |-> "stale", data |-> "old1"])
      @@ (BuildRoot \o <<<<"o", "l", "d">>, <<"x", ".", "h", "t", "m", "l">>>> :>
                                     [kind |-> "stale", data |-> "old2"])

Scenario(cmd, env, cfg, tpls, shape, listing, prev) ==
    [cmd |-> cmd, env |-> env, cfg |-> cfg, tpls |-> tpls, shape |-> shape,
     listing |-> listing, prev |-> prev]

\* the runs explored: every root listing on a flat tree; every tree shape
\* and previous build; every config and template directory; the sync runs
Scenarios ==
       {Scenario("generate", <<"p", "r", "o", "d">>, "cfg_ok", "full", "flat", l, pv) :
            l \in RootListings, pv \in PrevBuilds}
  \cup {Scenario("generate", <<"p", "r", "o", "d">>, "cfg_ok", "full", sh, l, pv) :
            sh \in Shapes, l \in SmallListings, pv \in PrevBuilds}
  \cup {Scenario("generate", <<"p", "r", "o", "d">>, c, t, "flat", l, pv) :
            c \in Configs, t \in TemplateDirs, l \in SmallListings,
            pv \in PrevBuilds}
  \cup {Scenario("sync", e, c, "full", "flat", <<>>, "stale") :
            e \in Environments, c \in Configs}

-----------------------------------------------------------------------------
(* The file system.  A build tree is its directories and its files.        *)

Tree(dirs, files) == [dirs |-> dirs, files |-> files]

\* what is at a resolved path: "dir", "file" or "absent"
entry_kind(in, build, path) ==
    CASE path = <<>> \/ path = <<projectdir>>          -> "dir"
      [] path = <<projectdir, <<"c", "o", "n", "f", "i", "g", ".", "y", "m", "l">>>>         ->
             IF in.cfg = "cfg_missing" THEN "absent" ELSE "file"
      [] path \in {<<projectdir, <<"t", "e", "m", "p", "l", "a", "t", "e", "s">>>>,
                   <<projectdir, <<"c", "o", "n", "t", "e", "n", "t">>>>}        -> "dir"
      [] Len(path) = 3 /\ SubSeq(path, 1, 2) = <<projectdir, <<"t", "e", "m", "p", "l", "a", "t", "e", "s">>>> ->
             IF path[3] \notin template_entries(in.tpls) THEN "absent"
             ELSE IF template_kind(path[3]) = "dir" THEN "dir" ELSE "file"
      [] path \in build.dirs                            -> "dir"
      [] path \in DOMAIN build.files                    -> "file"
      [] OTHER                                          -> "absent"

\* path resolution from the directory at: every component but the last
\* names a directory, ".." its parent
RECURSIVE path_kind(_, _, _, _)
path_kind(in, build, at, rest) ==
    IF rest = <<>> THEN entry_kind(in, build, at)
    ELSE IF entry_kind(in, build, at) # "dir" THEN "absent"
    ELSE IF Head(rest) = <<".", ".">>
         THEN path_kind(in, build, dirname(at), Tail(rest))
    ELSE IF Head(rest) = <<".">>
         THEN path_kind(in, build, at, Tail(rest))
    ELSE path_kind(in, build, Append(at, Head(rest)), Tail(rest))

\* os.path.exists(path)
exists(in, build, path) ==
    path_kind(in, build, <<>>, components(path)) # "absent"

\* a delete that is not recursive: the directory and the files in it go,
\* its sub-directories stay
rmtree_flat(build, path) ==
    LET keep == {p \in DOMAIN build.files : dirname(p) # path}
    IN  Tree(build.dirs \ {path}, [p \in keep |-> build.files[p]])

\* shutil.rmtree(path): the directory and everything under it
rmtree(build, path) ==
    LET under(p) == Len(p) >= Len(path) /\ SubSeq(p, 1, Len(path)) = path
        keep     == {p \in DOMAIN build.files : ~under(p)}
    IN  Tree({d \in build.dirs : ~under(d)}, [p \in keep |-> build.files[p]])

\* os.mkdir(path): "ok", or the exception it raises
mkdir_result(in, build, path) ==
    IF entry_kind(in, build, path) # "absent" THEN "FileExistsError"
    ELSE IF entry_kind(in, build, dirname(path)) # "dir" THEN "FileNotFoundError"
    ELSE "ok"

mkdir(build, path) == Tree(build.dirs \cup {path}, build.files)

\* open(path, 'w').write(data), shutil.copy(src, path): the file at path holds data
write_file(build, path, data) == Tree(build.dirs, (path :> data) @@ build.files)

\* the bytes of a source file
bytes(data) == [kind |-> "bytes", data |-> data]

-----------------------------------------------------------------------------
(* Pieces of main_generate *)

\* os.path.join(root, name)
join(root, name) ==
    IF root # <<>> /\ root[Len(root)] = "/" THEN root \o name
    ELSE root \o <<"/">> \o name

\* the root os.walk reports for a directory of the content tree (line 80)
RECURSIVE walk_root(_)
walk_root(dir) ==
    IF dir = <<>> THEN projectdir \o <<"/">> \o <<"c", "o", "n", "t", "e", "n", "t", "/">>
    ELSE join(walk_root(dirname(dir)), dir[Len(dir)])

\* line 74
builddir == projectdir \o <<"/", "b", "u", "i", "l", "d", "/">>

\* line 81
dest_of(root) ==
    builddir \o replace(root, projectdir \o <<"/", "c", "o", "n", "t", "e", "n", "t", "/">>, <<>>)

\* line 84: the files that are rendered, not copied
is_markdown(name) == endswith(name, <<"m", "d">>)

\* line 86: the path the file is copied to
copy_path(dest, name) == components(dest \o <<"/">> \o name)

\* line 133: the path the page is written to
page_path(dest, name) ==
    components(dest \o <<"/">> \o splitext(name)[1] \o <<".", "h", "t", "m", "l">>)

default_template == <<"d", "e", "f", "a", "u", "l", "t", ".", "h", "t", "m", "l">>

\* lines 95-103: the template name the document gets
select_template(in, build, fm) ==
    IF "template" \notin DOMAIN fm THEN default_template
    ELSE IF ~exists(in, build, projectdir \o <<"/", "t", "e", "m", "p", "l", "a", "t", "e", "s", "/">> \o fm.template)
         THEN default_template
    ELSE fm.template

\* lines 98-99: whether the fallback is logged
warns(in, build, fm) ==
    /\ "template" \in DOMAIN fm
    /\ ~exists(in, build, projectdir \o <<"/", "t", "e", "m", "p", "l", "a", "t", "e", "s", "/">> \o fm.template)

\* lines 106-107, env.get_template(name) of a FileSystemLoader on
\* <projectdir>/templates: "ok", or the exception raised.  The loader refuses a
\* name with a ".." piece and a path that is not a file, then compiles.
get_template(in, build, name) ==
    LET pieces == SelectSeq(split(name, "/"),
                            LAMBDA c : c # <<>> /\ c # <<".">>)
        path   == <<projectdir, <<"t", "e", "m", "p", "l", "a", "t", "e", "s">>>> \o pieces
    IN  IF \E i \in 1..Len(pieces) : pieces[i] = <<".", ".">>
        THEN "TemplateNotFound"
        ELSE IF path_kind(in, build, <<>>, path) # "file"
        THEN "TemplateNotFound"
        ELSE IF template_kind(pieces[Len(pieces)]) = "syntax"
        THEN "TemplateSyntaxError"
        ELSE "ok"

\* the heading first: a front-matter title only where there is no heading
set_title_heading_first(v, parsed) ==
    IF get_first_heading(parsed.raw) # None
    THEN ("title" :> get_first_heading(parsed.raw)) @@ v
    ELSE IF "title" \in DOMAIN parsed.front_matter
         THEN ("title" :> parsed.front_matter.title) @@ v
         ELSE ("title" :> None) @@ v

\* the title set only where the document gives one
set_title_if_any(v, parsed) ==
    IF "title" \in DOMAIN parsed.front_matter
    THEN ("title" :> parsed.front_matter.title) @@ v
    ELSE IF get_first_heading(parsed.raw) # None
         THEN ("title" :> get_first_heading(parsed.raw)) @@ v
         ELSE IF "title" \in DOMAIN v THEN v ELSE ("title" :> None) @@ v

\* lines 109-114: var after the title of the document is set
set_title(v, parsed) ==
    LET heading == ("title" :> get_first_heading(parsed.raw)) @@ v
    IN  IF "title" \in DOMAIN parsed.front_matter
        THEN ("title" :> parsed.front_matter.title) @@ heading
        ELSE heading

\* lines 67-71
seed_var(cfg) == IF "var" \in DOMAIN cfg THEN cfg.var ELSE EmptyMap

\* line 119: the content-level pass, as what the result depends on
render_content(body, v) == [body |-> body, var |-> v]

\* line 127: the page-level pass, as what the result depends on
render_page(tpl, body, v) ==
    [kind |-> "page", template |-> tpl, content |-> body, var |-> v]

Record(level, message) == [level |-> level, message |-> message]

Event(op, path, src) == [op |-> op, path |-> path, src |-> src]

-----------------------------------------------------------------------------
(* The process *)

VARIABLES
    in,         \* the run's inputs (a scenario): command line and project
    build,      \* the tree at <projectdir>/build
    pc,         \* where the process is
    status,     \* the exit status, once pc = "exit"
    traceback,  \* the exception that ended the process uncaught, and its line
    log,        \* the logging records emitted, at level info and above
    var,        \* main_generate's var
    stack,      \* os.walk: the directories still to report, next first
    dir,        \* the directory being visited, relative to the content root
    dest,       \* main_generate's dest (a path string)
    files,      \* the files of dir still to visit
    file,       \* the markdown file being rendered
    template,   \* the name of the template loaded for it
    content,    \* the result of the content-level pass
    html,       \* the result of the page-level pass
    events,     \* this run's mkdir, copy and write calls that succeeded, in order
    visited,    \* the source files this run has taken from the walk, in order
    run,        \* the number of the run
    previous    \* the build tree as the last completed run left it

vars == <<in, build, pc, status, traceback, log, var, stack, dir, dest, files,
          file, template, content, html, events, visited, run, previous>>

NoTraceback == [exception |-> "none", line |-> 0]
NoFile    == File(<<>>, "none")
NoContent == render_content("none", EmptyMap)
NoPage    == render_page(<<>>, NoContent, EmptyMap)

\* the values a starting process has
Fresh ==
    /\ pc = "start" /\ status = 0 /\ traceback = NoTraceback /\ log = {}
    /\ var = EmptyMap /\ stack = <<>> /\ dir = <<>> /\ dest = <<>>
    /\ files = <<>> /\ file = NoFile /\ template = <<>>
    /\ content = NoContent /\ html = NoPage
    /\ events = <<>> /\ visited = <<>>

Init ==
    /\ in \in Scenarios
    /\ build = Tree(prev_dirs(in.prev), prev_files(in.prev))
    /\ previous = build
    /\ run = 1
    /\ Fresh

locals == <<stack, dir, dest, files, file, template, content, html>>

\* an exception nothing catches, raised at a line of generator.py: the
\* interpreter prints the traceback and exits with status 1, nothing is logged
Uncaught(exception, line) ==
    /\ pc' = "exit" /\ status' = 1
    /\ traceback' = [exception |-> exception, line |-> line]

\* logging.critical(message); sys.exit(1)
Fatal(message) ==
    /\ log' = log \cup {Record("critical", message)}
    /\ pc' = "exit" /\ status' = 1 /\ traceback' = traceback

\* get_config (lines 36-40): "ok", or the exception open or safe_load raises
get_config(cfg) ==
    CASE cfg = "cfg_missing" -> [exception |-> "FileNotFoundError", line |-> 37]
      [] cfg = "cfg_bad"     -> [exception |-> "YAMLError", line |-> 38]
      [] OTHER               -> [exception |-> "ok", line |-> 0]

\* the config error swallowed: the run goes on with no variables
LoadConfigLenient ==
    /\ pc = "start" /\ in.cmd = "generate"
    /\ var' = IF get_config(in.cfg).exception # "ok" THEN EmptyMap
              ELSE seed_var(config(in.cfg))
    /\ pc' = "wipe"
    /\ UNCHANGED <<in, build, status, traceback, log, locals, events, visited,
                   run, previous>>

\* lines 63-71
LoadConfig ==
    /\ pc = "start" /\ in.cmd = "generate"
    /\ IF get_config(in.cfg).exception # "ok"
       THEN /\ Uncaught(get_config(in.cfg).exception, get_config(in.cfg).line)
            /\ var' = var
       ELSE /\ var' = seed_var(config(in.cfg))
            /\ pc' = "wipe"
            /\ UNCHANGED <<status, traceback>>
    /\ UNCHANGED <<in, build, log, locals, events, visited, run, previous>>

\* lines 73-77, and the start of the walk
EmptyBuild ==
    /\ pc = "wipe"
    /\ build' = IF exists(in, build, builddir)
                THEN rmtree(build, components(builddir))
                ELSE build
    /\ stack' = << <<>> >>
    /\ pc' = "walk"
    /\ UNCHANGED <<in, status, traceback, log, var, dir, dest, files, file,
                   template, content, html, events, visited, run, previous>>

\* the loop of line 83 goes on with the next file, or the walk goes on
after_file(rest) == IF rest = <<>> THEN "walk" ELSE "files"

\* lines 80-82: os.walk reports the next directory, top down, and its
\* build directory is made
WalkDir ==
    /\ pc = "walk" /\ stack # <<>>
    /\ LET d    == Head(stack)
           to   == dest_of(walk_root(d))
           path == components(to)
           subs == subdirs(in.shape, d)
       IN  /\ dir' = d
           /\ dest' = to
           /\ stack' = [i \in 1..Len(subs) |-> Append(d, subs[i])] \o Tail(stack)
           /\ IF mkdir_result(in, build, path) # "ok"
              THEN /\ Uncaught(mkdir_result(in, build, path), 82)
                   /\ UNCHANGED <<build, files, events>>
              ELSE /\ build' = mkdir(build, path)
                   /\ events' = Append(events, Event("mkdir", path, d))
                   /\ files' = files_of(in.listing, d)
                   /\ pc' = after_file(files_of(in.listing, d))
                   /\ UNCHANGED <<status, traceback>>
    /\ UNCHANGED <<in, log, var, file, template, content, html, visited, run,
                   previous>>

\* the walk is over: main_generate returns
Finish ==
    /\ pc = "walk" /\ stack = <<>>
    /\ pc' = "exit" /\ status' = 0
    /\ UNCHANGED <<in, build, traceback, log, var, locals, events, visited,
                   run, previous>>

\* lines 84-86
CopyFile ==
    /\ pc = "files" /\ ~is_markdown(Head(files).name)
    /\ LET f    == Head(files)
           path == copy_path(dest, f.name)
       IN  /\ build' = write_file(build, path, bytes(f.data))
           /\ events' = Append(events, Event("copy", path, Append(dir, f.name)))
           /\ visited' = Append(visited, Append(dir, f.name))
    /\ files' = Tail(files)
    /\ pc' = after_file(Tail(files))
    /\ UNCHANGED <<in, status, traceback, log, var, stack, dir, dest, file,
                   template, content, html, run, previous>>

\* lines 87-90
ParseFile ==
    /\ pc = "files" /\ is_markdown(Head(files).name)
    /\ file' = Head(files)
    /\ files' = Tail(files)
    /\ visited' = Append(visited, Append(dir, Head(files).name))
    /\ pc' = "template"
    /\ UNCHANGED <<in, build, status, traceback, log, var, stack, dir, dest,
                   template, content, html, events, run, previous>>

\* lines 93-107
ResolveTemplate ==
    /\ pc = "template"
    /\ LET fm   == parse_markdown_with_front_matter(file.data).front_matter
           name == select_template(in, build, fm)
       IN  /\ log' = IF warns(in, build, fm)
                     THEN log \cup {Record("warning", "Invalid template file")}
                     ELSE log
           /\ IF get_template(in, build, name) # "ok"
              THEN /\ Uncaught(get_template(in, build, name), 107)
                   /\ template' = template
              ELSE /\ template' = name
                   /\ pc' = "title"
                   /\ UNCHANGED <<status, traceback>>
    /\ UNCHANGED <<in, build, var, stack, dir, dest, files, file, content,
                   html, events, visited, run, previous>>

\* lines 109-114
SetTitle ==
    /\ pc = "title"
    /\ var' = set_title(var, parse_markdown_with_front_matter(file.data))
    /\ pc' = "content"
    /\ UNCHANGED <<in, build, status, traceback, log, locals, events, visited,
                   run, previous>>

\* lines 116-122
ContentPass ==
    /\ pc = "content"
    /\ CASE content_kind(file.data) = "syntax" ->
              /\ Uncaught("TemplateSyntaxError", 117)
              /\ UNCHANGED <<log, content>>
         [] content_kind(file.data) = "raises" ->
              /\ Fatal("Markdown Rendering failed.")
              /\ content' = content
         [] OTHER ->
              /\ content' = render_content(file.data, var)
              /\ pc' = "page"
              /\ UNCHANGED <<status, traceback, log>>
    /\ UNCHANGED <<in, build, var, stack, dir, dest, files, file, template,
                   html, events, visited, run, previous>>

\* the failure logged, the exit forgotten
PagePassNoExit ==
    /\ pc = "page"
    /\ log' = IF template_kind(template) = "raises"
              THEN log \cup {Record("critical", "Rendering of source to html failed.")}
              ELSE log
    /\ html' = render_page(template, content, var)
    /\ pc' = "write"
    /\ UNCHANGED <<in, build, status, traceback, var, stack, dir, dest, files,
                   file, template, content, events, visited, run, previous>>

\* lines 124-130
PagePass ==
    /\ pc = "page"
    /\ IF template_kind(template) = "raises"
       THEN /\ Fatal("Rendering of source to html failed.")
            /\ html' = html
       ELSE /\ html' = render_page(template, content, var)
            /\ pc' = "write"
            /\ UNCHANGED <<status, traceback, log>>
    /\ UNCHANGED <<in, build, var, stack, dir, dest, files, file, template,
                   content, events, visited, run, previous>>

\* lines 132-134
WritePage ==
    /\ pc = "write"
    /\ LET path == page_path(dest, file.name)
       IN  /\ build' = write_file(build, path, html)
           /\ events' = Append(events, Event("write", path, Append(dir, file.name)))
    /\ pc' = after_file(files)
    /\ UNCHANGED <<in, status, traceback, log, var, stack, dir, dest, files,
                   file, template, content, html, visited, run, previous>>

\* main_sync, lines 137-153; rsync exits with 0 or not
MainSync ==
    /\ pc = "start" /\ in.cmd = "sync"
    /\ IF get_config(in.cfg).exception # "ok"
       THEN Uncaught(get_config(in.cfg).exception, get_config(in.cfg).line) /\ log' = log
       ELSE IF \/ "sync" \notin DOMAIN config(in.cfg)
               \/ in.env \notin DOMAIN config(in.cfg).sync
            THEN Uncaught("KeyError", 144) /\ log' = log
            ELSE \E rsync_ok \in BOOLEAN :
                    IF rsync_ok
                    THEN /\ log' = log \cup {Record("info", "Starting rsync."),
                                             Record("info", "rsync done.")}
                         /\ pc' = "exit" /\ status' = 0
                         /\ traceback' = traceback
                    ELSE Fatal("Rsync failed.")
    /\ UNCHANGED <<in, build, var, locals, events, visited, run, previous>>

\* lines 169-171: the command is given again, on the project as it is
RunAgain ==
    /\ pc = "exit" /\ status = 0 /\ in.cmd = "generate" /\ run < MaxRuns
    /\ run' = run + 1
    /\ previous' = build
    /\ pc' = "start" /\ status' = 0 /\ traceback' = NoTraceback /\ log' = {}
    /\ var' = EmptyMap /\ stack' = <<>> /\ dir' = <<>> /\ dest' = <<>>
    /\ files' = <<>> /\ file' = NoFile /\ template' = <<>>
    /\ content' = NoContent /\ html' = NoPage
    /\ events' = <<>> /\ visited' = <<>>
    /\ UNCHANGED <<in, build>>

Next ==
    \/ LoadConfig \/ EmptyBuild \/ WalkDir \/ Finish \/ CopyFile \/ ParseFile
    \/ ResolveTemplate \/ SetTitle \/ ContentPass \/ PagePass \/ WritePage
    \/ MainSync \/ RunAgain

Spec == Init /\ [][Next]_vars

-----------------------------------------------------------------------------
(* What the properties speak of *)

Generating == in.cmd = "generate"

\* the document being rendered
parsed == parse_markdown_with_front_matter(file.data)

\* the pages and copies in the build tree
Pages == {p \in DOMAIN build.files : build.files[p].kind = "page"}

Critical == \E r \in log : r.level = "critical"

\* every directory of the content tree, relative to the content root
RECURSIVE dirs_under(_, _)
dirs_under(shape, d) ==
    {d} \cup UNION {dirs_under(shape, Append(d, subdirs(shape, d)[i])) :
                        i \in 1..Len(subdirs(shape, d))}

ContentDirs == dirs_under(in.shape, <<>>)

\* the template names that name a loadable template under the template root
Loadable(name) ==
    /\ name \in template_entries(in.tpls)
    /\ template_kind(name) \in {"good", "raises"}

\* the document asks for a template that is not a loadable one of the
\* template root, and default.html is
AsksUnloadable(d) ==
    /\ "template" \in DOMAIN front_matter(d)
    /\ ~Loadable(front_matter(d).template)
    /\ Loadable(default_template)

\* the lines of a document after its front-matter block
body_lines(text) ==
    LET lines  == split(text, "\n")
        closes == {i \in 2..Len(lines) : lines[i] = <<"-", "-", "-">>}
    IN  IF lines[1] = <<"-", "-", "-">> /\ closes # {}
        THEN SubSeq(lines, (CHOOSE i \in closes : \A j \in closes : i <= j) + 1,
                    Len(lines))
        ELSE lines

\* the first top-level heading of a document: its text with the leading
\* marker and the surrounding whitespace removed, or None
first_heading(text) ==
    LET lines == body_lines(text)
        hits  == {i \in 1..Len(lines) : startswith(lines[i], <<"#", " ">>)}
    IN  IF hits = {} THEN None
        ELSE LET i == CHOOSE k \in hits : \A j \in hits : k <= j
             IN  strip(SubSeq(lines[i], 3, Len(lines[i])))

\* the title the code resolves from the document alone
resolved_title(d) ==
    IF "title" \in DOMAIN front_matter(d) THEN front_matter(d).title
    ELSE get_first_heading(raw(d))

-----------------------------------------------------------------------------
(* C1: a document whose template value names no loadable template of the   *)
(* template root (default.html being one) never ends the run at the        *)
(* template step: it is rendered with default.html, with a warning logged. *)
C1_FallbackNeverAborts ==
    (Generating /\ file # NoFile /\ AsksUnloadable(file.data)) =>
        /\ ~(pc = "exit" /\ traceback.line = 107)
        /\ pc \in {"title", "content", "page", "write"} =>
               /\ template = default_template
               /\ \E r \in log : r.level = "warning"

(* C2: for a document with a front-matter title, the title both render     *)
(* passes see is that title, whatever its headings and whatever was        *)
(* rendered before.                                                        *)
C2_FrontMatterTitleWins ==
    /\ (pc \in {"page", "write"} /\ "title" \in DOMAIN parsed.front_matter) =>
           content.var["title"] = parsed.front_matter.title
    /\ (pc = "write" /\ "title" \in DOMAIN parsed.front_matter) =>
           html.var["title"] = parsed.front_matter.title
    /\ \A p \in Pages :
           LET page == build.files[p]
               fm   == front_matter(page.content.body)
           IN  "title" \in DOMAIN fm =>
                   /\ page.content.var["title"] = fm.title
                   /\ page.var["title"] = fm.title

\* a titled document with another heading is about to be written, after a
\* page with another title
C2_Witness ==
    /\ pc = "write" /\ file.data = "d_title"
    /\ get_first_heading(parsed.raw) = <<"W", "o", "r", "l", "d">>
    /\ html.var["title"] = <<"H", "e", "l", "l", "o">>
    /\ \E p \in Pages : build.files[p].var["title"] # <<"H", "e", "l", "l", "o">>

(* C3: for a document without a front-matter title and with a top-level    *)
(* heading, the resolved title is the text of its first heading line,      *)
(* leading marker and surrounding whitespace removed.                      *)
C3_HeadingTitle ==
    (/\ pc \in {"content", "page", "write"}
     /\ "title" \notin DOMAIN parsed.front_matter
     /\ first_heading(parsed.raw) # None) =>
        var["title"] = first_heading(parsed.raw)

(* C4: after a completed generate run every file not named *.md is in the  *)
(* build tree at the same relative path with the same bytes, and every     *)
(* file named *.md is there as a page with .md replaced by .html.          *)
C4_MirrorTree ==
    (Generating /\ pc = "exit" /\ status = 0) =>
        \A d \in ContentDirs :
            \A i \in 1..Len(files_of(in.listing, d)) :
                LET f == files_of(in.listing, d)[i]
                    n == f.name
                IN  IF endswith(n, <<".", "m", "d">>)
                    THEN LET p == BuildRoot \o d \o
                                  <<SubSeq(n, 1, Len(n) - 3) \o <<".", "h", "t", "m", "l">>>>
                         IN  /\ p \in Pages
                             /\ build.files[p].content.body = f.data
                    ELSE LET p == BuildRoot \o d \o <<n>>
                         IN  /\ p \in DOMAIN build.files
                             /\ build.files[p] = bytes(f.data)

(* C5: when a render pass raises the run ends at once with a non-zero      *)
(* status: that step writes nothing and takes no further file from the     *)
(* walk, the failing document has no output, and nothing happens after.    *)
RenderRaises ==
    \/ pc = "content" /\ content_kind(file.data) # "good"
    \/ pc = "page" /\ template_kind(template) = "raises"

RenderFailed ==
    /\ Generating /\ pc = "exit"
    /\ \/ traceback.line = 117
       \/ \E r \in log : r.level = "critical"

C5_FailFast ==
    /\ [][RenderRaises =>
            /\ pc' = "exit" /\ status' # 0
            /\ build' = build /\ events' = events /\ visited' = visited]_vars
    /\ [][(pc = "exit" /\ status # 0) => UNCHANGED vars]_vars
    /\ [](RenderFailed =>
            /\ status # 0
            /\ visited # <<>>
            /\ visited[Len(visited)] = Append(dir, file.name)
            /\ \A i \in 1..Len(events) : events[i].src # Append(dir, file.name))

\* a render failed with files written before it and files left unvisited
C5_Witness ==
    /\ RenderFailed
    /\ \E i \in 1..Len(events) : events[i].op \in {"copy", "write"}
    /\ files # <<>> /\ stack # <<>>

(* C6: once the build root is wiped, the build tree holds exactly what     *)
(* this run made, nothing of a previous build; and a run on unchanged      *)
(* inputs ends with the tree the run before it ended with.                 *)
C6_NoStaleOutput ==
    /\ (/\ Generating
        /\ \/ pc \in {"walk", "files", "template", "title", "content", "page",
                      "write"}
           \/ pc = "exit" /\ status = 0) =>
           /\ build.dirs = {events[i].path :
                               i \in {j \in 1..Len(events) : events[j].op = "mkdir"}}
           /\ DOMAIN build.files = {events[i].path :
                               i \in {j \in 1..Len(events) : events[j].op # "mkdir"}}
           /\ \A p \in DOMAIN build.files : build.files[p].kind # "stale"
    /\ (Generating /\ pc = "exit" /\ status = 0 /\ run > 1) => build = previous

\* a second run completed on a project that had a stale build
C6_Witness ==
    /\ Generating /\ pc = "exit" /\ status = 0 /\ run > 1
    /\ in.prev = "stale" /\ Pages # {}
    /\ build = previous

(* C7: every generate or sync run that ends with a non-zero status on a    *)
(* config error, a template load failure, a substitution failure or a      *)
(* sync command failure has logged a message at critical severity.         *)
C7_FatalIsCritical ==
    (/\ pc = "exit" /\ status # 0
     /\ traceback.exception = "none" \/ traceback.line \in {37, 38, 107, 117}) =>
        Critical

(* C8: when config.yml cannot be loaded, main_generate ends with a         *)
(* non-zero status, having visited nothing of the content tree and left    *)
(* the build tree of the previous run as it was.                           *)
C8_ConfigErrorFirst ==
    (Generating /\ get_config(in.cfg).exception # "ok") =>
        /\ pc \in {"start", "exit"}
        /\ pc = "exit" => status # 0
        /\ build = Tree(prev_dirs(in.prev), prev_files(in.prev))
        /\ visited = <<>> /\ events = <<>>

\* the run ended on a config error, the previous build in place
C8_Witness ==
    /\ Generating /\ pc = "exit" /\ status # 0
    /\ traceback.line \in {37, 38}
    /\ in.prev = "stale" /\ DOMAIN build.files # {}

(* C9: every file is copied or written into a directory made before; the   *)
(* build directory at the same relative path as a content directory is     *)
(* made before any file or sub-directory of that directory is written or   *)
(* made; no build directory is made twice.                                 *)
C9_ParentBeforeChild ==
    Generating =>
        \A i \in 1..Len(events) :
            LET e == events[i]
                made(path) == \E j \in 1..(i - 1) :
                                 events[j].op = "mkdir" /\ events[j].path = path
            IN  IF e.op = "mkdir"
                THEN /\ e.path = BuildRoot \o e.src
                     /\ e.src # <<>> => made(dirname(e.path))
                     /\ ~made(e.path)
                ELSE /\ made(dirname(e.path))
                     /\ made(BuildRoot \o dirname(e.src))

(* C10: the title a document is rendered with, in both passes, is the one  *)
(* resolved from that document alone, None when it has neither title nor   *)
(* heading line; every other entry of var is the config's.                 *)
ConfigEntries(v) ==
    LET cv == seed_var(config(in.cfg))
    IN  /\ DOMAIN v \ {"title"} = DOMAIN cv \ {"title"}
        /\ \A k \in DOMAIN v \ {"title"} : v[k] = cv[k]

C10_NoTitleLeak ==
    /\ (Generating /\ pc \in {"wipe", "walk", "files", "template", "title",
                              "content", "page", "write"}) => ConfigEntries(var)
    /\ pc \in {"page", "write"} =>
           /\ content.body = file.data
           /\ content.var["title"] = resolved_title(file.data)
           /\ ConfigEntries(content.var)
    /\ pc = "write" =>
           /\ html.var["title"] = resolved_title(file.data)
           /\ ConfigEntries(html.var)
    /\ \A p \in Pages :
           LET page == build.files[p]
           IN  /\ page.content.var["title"] = resolved_title(page.content.body)
               /\ page.var["title"] = resolved_title(page.content.body)
               /\ ConfigEntries(page.var)
    /\ \A p \in Pages :
           LET d == build.files[p].content.body
           IN  (/\ "title" \notin DOMAIN front_matter(d)
                /\ \A i \in 1..Len(split(raw(d), "\n")) :
                       ~startswith(split(raw(d), "\n")[i], <<"#", " ">>)) =>
                   build.files[p].var["title"] = None

\* a document with neither title nor heading is rendered without a title,
\* after a page that had one
C10_Witness ==
    /\ pc = "write" /\ file.data = "d_none"
    /\ html.var["title"] = None /\ content.var["title"] = None
    /\ \E p \in Pages : build.files[p].var["title"] = <<"H", "e", "l", "l", "o">>

=============================================================================
